---- MODULE Spec2Model ----
(***************************************************************************)
(* wasm-split: split-point discovery (get_split_points), the partitioner   *)
(* (compute_split_modules) and the loader-script generation of main().     *)
(*                                                                         *)
(* Strings are sequences of byte values, so that String's Ord (byte-wise    *)
(* lexicographic) and Vec<String>::join are computed, not assumed.          *)
(* Identifiers (ImportId, ExportId, InputFuncId, SymbolIndex, output index) *)
(* are 0-based as in the source; TLA+ sequences are 1-based, so the item    *)
(* with id i is at position i + 1.                                          *)
(***************************************************************************)
EXTENDS Integers, Sequences, FiniteSets, TLC

VARIABLES module, dep_graph, pc, found, split_points, program_info, javascript,
          alreadyLoaded, calls, instantiated

vars == <<module, dep_graph, pc, found, split_points, program_info, javascript,
          alreadyLoaded, calls, instantiated>>

(***************************************************************************)
(* Bounds of the input families.                                           *)
(***************************************************************************)
MaxEdges == 2
MaxHelpers == 2
MaxItems == 2

(***************************************************************************)
(* Bounds of the loader at run time: the calls the program makes of the     *)
(* exported load functions, and the arguments it passes.                    *)
(***************************************************************************)
MaxCalls == 2
MaxCallbackIndex == 1
MaxCallbackData == 1

(***************************************************************************)
(* Strings.                                                                *)
(***************************************************************************)
Range(s) == {s[i] : i \in 1..Len(s)}

\* <String as Ord>::lt : byte-wise lexicographic, a proper prefix is smaller.
RECURSIVE StrLess(_, _)
StrLess(s, t) ==
    IF t = <<>> THEN FALSE
    ELSE IF s = <<>> THEN TRUE
    ELSE IF Head(s) # Head(t) THEN Head(s) < Head(t)
    ELSE StrLess(Tail(s), Tail(t))

\* <Vec<String> as Ord>::lt : lexicographic over the elements.
RECURSIVE VecLess(_, _)
VecLess(u, v) ==
    IF v = <<>> THEN FALSE
    ELSE IF u = <<>> THEN TRUE
    ELSE IF Head(u) # Head(v) THEN StrLess(Head(u), Head(v))
    ELSE VecLess(Tail(u), Tail(v))

\* Vec<String>::sort of a list without repeated elements.
RECURSIVE SortStrs(_)
SortStrs(S) ==
    IF S = {} THEN <<>>
    ELSE LET m == CHOOSE x \in S : \A y \in S : y = x \/ StrLess(x, y)
         IN  <<m>> \o SortStrs(S \ {m})

\* The separator of names.join("_").
Underscore == 95

\* [String]::join("_")
RECURSIVE join(_)
join(names) ==
    IF names = <<>> THEN <<>>
    ELSE IF Len(names) = 1 THEN names[1]
    ELSE names[1] \o <<Underscore>> \o join(Tail(names))

(***************************************************************************)
(* DepNode and DepGraph.                                                   *)
(***************************************************************************)
Function(i) == [tag |-> "Function", index |-> i]
DataSymbol(i) == [tag |-> "DataSymbol", index |-> i]

\* The iteration orders of the hash containers of one run (HashSet and HashMap
\* iterate in an order the hasher's random state decides): one order for the
\* containers of DepNode, one for those keyed by module name.  Two runs are
\* told apart: every container ascending, every container descending.
HashOrders ==
    {[nodes |-> "ascending", names |-> "ascending"],
     [nodes |-> "descending", names |-> "descending"]}

\* Ascending: by index, a function before the data symbol of the same index.
NodeRank(n) == IF n.tag = "Function" THEN 2 * n.index ELSE 2 * n.index + 1

RECURSIVE AscendingNodes(_)
AscendingNodes(S) ==
    IF S = {} THEN <<>>
    ELSE LET m == CHOOSE x \in S : \A y \in S : NodeRank(x) <= NodeRank(y)
         IN  <<m>> \o AscendingNodes(S \ {m})

Reverse(s) == [i \in 1..Len(s) |-> s[Len(s) + 1 - i]]

\* The order `for x in set.iter()` yields a HashSet<DepNode> in, under h.
IterNodes(S, h) ==
    IF h.nodes = "ascending" THEN AscendingNodes(S) ELSE Reverse(AscendingNodes(S))

\* The order a HashMap keyed by module name yields its keys in, under h.
IterNames(S, h) ==
    IF h.names = "ascending" THEN SortStrs(S) ELSE Reverse(SortStrs(S))

\* The body of the while loop of find_reachable_deps, to the end of the queue.
\* dequeued lists the nodes pop_front has returned, in order.
RECURSIVE bfs_loop(_, _, _, _, _, _, _)
bfs_loop(deps, exclude, h, queue, seen, parents, dequeued) ==
    IF queue = <<>>
    THEN [reachable |-> seen, parents |-> parents, dequeued |-> dequeued]
    ELSE LET node == Head(queue)
             seen1 == seen \cup {node}
             children == IF node \in DOMAIN deps THEN IterNodes(deps[node], h) ELSE <<>>
             pushed == SelectSeq(children,
                           LAMBDA child : child \notin seen1 /\ child \notin exclude)
             parents1 == [c \in DOMAIN parents \cup Range(pushed) |->
                             IF c \in DOMAIN parents THEN parents[c] ELSE node]
         IN  bfs_loop(deps, exclude, h, Tail(queue) \o pushed, seen1, parents1,
                      Append(dequeued, node))

find_reachable_deps(deps, roots, exclude, h) ==
    bfs_loop(deps, exclude, h, IterNodes(roots, h), {}, <<>>, <<>>)

(***************************************************************************)
(* The input module, as far as the splitter reads it.  An import or export  *)
(* item carries what its name's regex match yields (split, module_name,     *)
(* unique_id: the two captures) and its kind (func).                        *)
(***************************************************************************)
PlainImport(is_func) ==
    [split |-> FALSE, module_name |-> <<>>, unique_id |-> 0, func |-> is_func]
SplitImport(name, uid, is_func) ==
    [split |-> TRUE, module_name |-> name, unique_id |-> uid, func |-> is_func]
PlainExport(is_func, idx) ==
    [split |-> FALSE, module_name |-> <<>>, unique_id |-> 0, func |-> is_func,
     index |-> idx]
SplitExport(name, uid, is_func, idx) ==
    [split |-> TRUE, module_name |-> name, unique_id |-> uid, func |-> is_func,
     index |-> idx]

\* module.imported_funcs.len(): function imports come first in the function
\* index space, in import order.
NumImportedFuncs(imports) == Cardinality({i \in 1..Len(imports) : imports[i].func})

\* module.imported_func_map: ImportId -> InputFuncId, defined on function imports.
imported_func_map(imports) ==
    [id \in {i - 1 : i \in {j \in 1..Len(imports) : imports[j].func}} |->
        Cardinality({j \in 1..id : imports[j].func})]

\* The key process_imports_or_exports! extracts from a matching name.
KeyOf(item) == <<item.module_name, item.unique_id>>

\* The map process_imports_or_exports! builds: HashMap::insert keeps the last
\* id of a repeated key.
process_imports_or_exports(items) ==
    [key \in {KeyOf(items[i]) : i \in {j \in 1..Len(items) : items[j].split}} |->
        (CHOOSE i \in 1..Len(items) :
            /\ items[i].split /\ KeyOf(items[i]) = key
            /\ \A j \in 1..Len(items) :
                   (items[j].split /\ KeyOf(items[j]) = key) => j <= i) - 1]

NoError == [kind |-> "none", key |-> <<>>]
Err(kind, key) == [kind |-> kind, key |-> key]

\* The closure mapped over import_map.drain(), collected into a Result: the
\* keys come in `order`, the first Err ends the collection.
RECURSIVE collect_split_points(_, _, _, _)
collect_split_points(m, order, import_map, export_map) ==
    IF order = <<>> THEN [error |-> NoError, split_points |-> <<>>]
    ELSE LET key == Head(order)
             import_id == import_map[key]
         IN  IF key \notin DOMAIN export_map
             THEN [error |-> Err("no_export_for_import", key), split_points |-> <<>>]
             ELSE LET export_id == export_map[key]
                      export == m.exports[export_id + 1]
                  IN  IF ~export.func
                      THEN [error |-> Err("expected_exported_function", key),
                            split_points |-> <<>>]
                      ELSE IF import_id \notin DOMAIN imported_func_map(m.imports)
                      THEN [error |-> Err("expected_imported_function", key),
                            split_points |-> <<>>]
                      ELSE LET rest == collect_split_points(m, Tail(order),
                                                            import_map, export_map)
                               sp == [module_name |-> key[1],
                                      import |-> import_id,
                                      import_func |-> imported_func_map(m.imports)[import_id],
                                      export |-> export_id,
                                      export_func |-> export.index]
                           IN  IF rest.error # NoError THEN rest
                               ELSE [error |-> NoError,
                                     split_points |-> <<sp>> \o rest.split_points]

\* The loop over what is left of export_map: it bails at the first entry the
\* iteration yields, `first`.
no_import_check_skipped(collected, left, first) == collected

no_import_check(collected, left, first) ==
    IF collected.error # NoError THEN collected
    ELSE IF left # {} THEN [error |-> Err("no_import_for_export", first),
                            split_points |-> <<>>]
    ELSE collected

\* get_split_points; `order` is the order import_map.drain() yields the keys
\* in, `first` the entry export_map.iter() yields first.
get_split_points(m, order, first) ==
    LET import_map == process_imports_or_exports(m.imports)
        export_map == process_imports_or_exports(m.exports)
    IN  no_import_check(collect_split_points(m, order, import_map, export_map),
                        DOMAIN export_map \ DOMAIN import_map, first)

\* The orders a HashMap may yield a set of keys in.
Orders(S) ==
    {s \in [1..Cardinality(S) -> S] : \A i, j \in 1..Cardinality(S) : s[i] = s[j] => i = j}

(***************************************************************************)
(* The partitioner.                                                        *)
(***************************************************************************)
Main == [tag |-> "Main", names |-> <<>>]
Split(name) == [tag |-> "Split", names |-> <<name>>]
Chunk(names) == [tag |-> "Chunk", names |-> names]

\* SplitModuleIdentifier::name
name(identifier) ==
    IF identifier.tag = "Main" THEN <<109, 97, 105, 110>>
    ELSE IF identifier.tag = "Split" THEN identifier.names[1]
    ELSE join(identifier.names)

\* The discriminant order of #[derive(PartialOrd, Ord)] on
\* enum SplitModuleIdentifier { Main, Split(String), Chunk(Vec<String>) }.
variant_rank_chunks_first(tag) ==
    IF tag = "Main" THEN 0 ELSE IF tag = "Chunk" THEN 1 ELSE 2

variant_rank(tag) ==
    IF tag = "Main" THEN 0 ELSE IF tag = "Split" THEN 1 ELSE 2

\* <SplitModuleIdentifier as Ord>::lt : the variant first, then its field.
IdLess(x, y) ==
    IF x.tag # y.tag THEN variant_rank(x.tag) < variant_rank(y.tag)
    ELSE IF x.tag = "Split" THEN StrLess(x.names[1], y.names[1])
    ELSE VecLess(x.names, y.names)

\* sort_by_key over the drained map: its keys are distinct.
RECURSIVE SortIds(_)
SortIds(S) ==
    IF S = {} THEN <<>>
    ELSE LET m == CHOOSE x \in S : \A y \in S : y = x \/ IdLess(x, y)
         IN  <<m>> \o SortIds(S \ {m})

get_main_module_roots(m, sps) ==
    LET from_start == {Function(id) : id \in m.start}
        from_exports == {Function(m.exports[i].index) :
                            i \in {j \in 1..Len(m.exports) : m.exports[j].func}}
        from_imports == {Function(id) : id \in 0..(NumImportedFuncs(m.imports) - 1)}
    IN  (from_start \cup from_exports \cup from_imports)
            \ ({Function(sps[i].export_func) : i \in 1..Len(sps)}
               \cup {Function(sps[i].import_func) : i \in 1..Len(sps)})

get_split_points_by_module(sps) ==
    [module_name \in {sps[i].module_name : i \in 1..Len(sps)} |->
        SelectSeq(sps, LAMBDA sp : sp.module_name = module_name)]

\* split_func_map: collecting into a HashMap keeps the last pair of a
\* repeated import_func.
split_func_map(sps) ==
    [f \in {sps[i].import_func : i \in 1..Len(sps)} |->
        sps[CHOOSE i \in 1..Len(sps) :
                /\ sps[i].import_func = f
                /\ \A j \in 1..Len(sps) : sps[j].import_func = f => j <= i].export_func]

remove_ignored_deps_skipped(sps, deps) == deps

remove_ignored_deps(sps, deps) ==
    deps \ {Function(sps[i].import_func) : i \in 1..Len(sps)}

remove_ignored_funcs(sps, funcs) ==
    funcs \ {sps[i].import_func : i \in 1..Len(sps)}

\* main_deps with remove_ignored_deps applied to its reachable set.
main_deps(m, deps, sps, h) ==
    LET g == find_reachable_deps(deps, get_main_module_roots(m, sps), {}, h)
    IN  [reachable |-> remove_ignored_deps(sps, g.reachable), parents |-> g.parents]

\* split_module_candidates before the chunking loop.
split_module_candidates(deps, sps, main_reachable, h) ==
    LET by_module == get_split_points_by_module(sps)
    IN  [module_name \in DOMAIN by_module |->
            LET entry_points == by_module[module_name]
                roots == {Function(entry_points[i].export_func) :
                             i \in 1..Len(entry_points)}
                g == find_reachable_deps(deps, roots, main_reachable, h)
            IN  [reachable |-> remove_ignored_deps(sps, g.reachable),
                 parents |-> g.parents]]

\* dep_candidate_modules: for each symbol the Vec of the split modules it is
\* reachable from, pushed in the order split_module_candidates.iter() yields
\* them (each module name is pushed once per symbol).
dep_candidate_modules(candidates, h) ==
    [dep \in UNION {candidates[mn].reachable : mn \in DOMAIN candidates} |->
        SelectSeq(IterNames(DOMAIN candidates, h),
                  LAMBDA mn : dep \in candidates[mn].reachable)]

\* `if modules.len() > 1`
is_shared_by_three(modules) == Len(modules) > 2

is_shared(modules) == Len(modules) > 1

\* `modules.sort()`
sort_modules_skipped(modules) == modules

sort_modules(modules) == SortStrs(Range(modules))

\* The insert of Main, the chunking loop over dep_candidate_modules (dcm) and
\* the extend with the drained candidates, from main_deps (md) and
\* split_module_candidates (candidates).
chunk_and_extend(md, candidates, dcm) ==
    LET shared == {dep \in DOMAIN dcm : is_shared(dcm[dep])}
        chunks == {Chunk(sort_modules(dcm[dep])) : dep \in shared}
        splits == {Split(mn) : mn \in DOMAIN candidates}
    IN  [identifier \in {Main} \cup chunks \cup splits |->
            IF identifier.tag = "Main"
            THEN [included_symbols |-> md.reachable, parents |-> md.parents]
            ELSE IF identifier.tag = "Chunk"
            THEN [included_symbols |->
                      {dep \in shared : sort_modules(dcm[dep]) = identifier.names},
                  parents |-> <<>>]
            ELSE [included_symbols |->
                      candidates[identifier.names[1]].reachable \ shared,
                  parents |-> candidates[identifier.names[1]].parents]]

\* split_module_contents after the chunking loop and the extend with the
\* drained candidates: identifier -> (included_symbols, parents).
split_module_contents(m, deps, sps, h) ==
    LET md == main_deps(m, deps, sps, h)
        candidates == split_module_candidates(deps, sps, md.reachable, h)
    IN  chunk_and_extend(md, candidates, dep_candidate_modules(candidates, h))

\* `*split_func_map.get(&called_func_id).unwrap_or(&called_func_id)`
rewrite_called_func_skipped(map, called_func_id) == called_func_id

rewrite_called_func(map, called_func_id) ==
    IF called_func_id \in DOMAIN map THEN map[called_func_id] ELSE called_func_id

\* What the loop over one output's included_symbols inserts.
called_not_included(deps, sps, included_symbols) ==
    {g \in {rewrite_called_func(split_func_map(sps), n.index) :
               n \in {c \in UNION {deps[s] : s \in included_symbols \cap DOMAIN deps} :
                         c.tag = "Function"}} :
        Function(g) \notin included_symbols}

\* contents.shared_imports at the end of the loop body.
shared_imports(deps, sps, included_symbols) ==
    remove_ignored_funcs(sps, called_not_included(deps, sps, included_symbols))

\* program_info.shared_funcs after the loop over split_points.
shared_funcs_without_exports(deps, sps, contents) ==
    remove_ignored_funcs(sps,
        UNION {called_not_included(deps, sps, contents[id].included_symbols) :
                  id \in DOMAIN contents})

shared_funcs(deps, sps, contents) ==
    remove_ignored_funcs(sps,
        UNION {called_not_included(deps, sps, contents[id].included_symbols) :
                  id \in DOMAIN contents})
    \cup {sps[i].export_func : i \in 1..Len(sps)}

\* symbol_output_module, from the included_symbols of the outputs in output
\* order: a later output's insert replaces an earlier one's.
symbol_output_module(included_symbols) ==
    [symbol \in UNION {included_symbols[i] : i \in 1..Len(included_symbols)} |->
        (CHOOSE i \in 1..Len(included_symbols) :
            /\ symbol \in included_symbols[i]
            /\ \A j \in 1..Len(included_symbols) :
                   symbol \in included_symbols[j] => j <= i) - 1]

\* The SplitProgramInfo built from split_module_contents: the loop over its
\* values, the sort of the outputs and the two maps.
program_info_of(deps, sps, contents) ==
    LET sorted == SortIds(DOMAIN contents)
        output_modules ==
            [i \in 1..Len(sorted) |->
                [identifier |-> sorted[i],
                 info |-> [included_symbols |-> contents[sorted[i]].included_symbols,
                           parents |-> contents[sorted[i]].parents,
                           shared_imports |->
                               shared_imports(deps, sps,
                                              contents[sorted[i]].included_symbols),
                           split_points |->
                               IF sorted[i].tag = "Split"
                               THEN SelectSeq(sps, LAMBDA sp :
                                        sp.module_name = sorted[i].names[1])
                               ELSE <<>>]]]
    IN  [output_modules |-> output_modules,
         output_module_identifiers |->
             [identifier \in DOMAIN contents |->
                 (CHOOSE i \in 1..Len(sorted) : sorted[i] = identifier) - 1],
         shared_funcs |-> shared_funcs(deps, sps, contents),
         symbol_output_module |->
             symbol_output_module([i \in 1..Len(sorted) |->
                                      contents[sorted[i]].included_symbols])]

compute_split_modules(m, deps, sps, h) ==
    program_info_of(deps, sps, split_module_contents(m, deps, sps, h))

(***************************************************************************)
(* The loader script main() appends after the makeLoad helper: one          *)
(* declaration per line, kept as (export keyword?, declared name, file,     *)
(* deps list).                                                              *)
(***************************************************************************)
\* "__wasm_split_load_{x}"
load_function(x) ==
    <<95, 95, 119, 97, 115, 109, 95, 115, 112, 108, 105, 116, 95,
      108, 111, 97, 100, 95>> \o x

\* "./{name}.wasm"
wasm_url(x) == <<46, 47>> \o x \o <<46, 119, 97, 115, 109>>

\* split_deps after the first loop: split name -> the names of the chunks
\* listing it, in output order.
split_deps_of(output_modules) ==
    LET chunks == SelectSeq([i \in 1..Len(output_modules) |->
                                output_modules[i].identifier],
                            LAMBDA id : id.tag = "Chunk")
    IN  [split \in UNION {Range(chunks[i].names) : i \in 1..Len(chunks)} |->
            LET listing == SelectSeq(chunks, LAMBDA id : split \in Range(id.names))
            IN  [i \in 1..Len(listing) |-> name(listing[i])]]

\* The first loop's output: a const per Chunk, in output order.
chunk_declarations(output_modules) ==
    LET chunks == SelectSeq([i \in 1..Len(output_modules) |->
                                output_modules[i].identifier],
                            LAMBDA id : id.tag = "Chunk")
    IN  [i \in 1..Len(chunks) |->
            [exported |-> FALSE,
             declares |-> load_function(name(chunks[i])),
             url |-> wasm_url(name(chunks[i])),
             deps |-> <<>>]]

\* The second loop, over `ids` (the outputs in reverse): every identifier
\* that is not a Chunk gets an export const; split_deps.remove takes the
\* entry of its name.
RECURSIVE export_declarations(_, _)
export_declarations(ids, split_deps) ==
    IF ids = <<>> THEN <<>>
    ELSE IF Head(ids).tag = "Chunk" THEN export_declarations(Tail(ids), split_deps)
    ELSE LET nm == name(Head(ids))
             taken == IF nm \in DOMAIN split_deps THEN split_deps[nm] ELSE <<>>
         IN  <<[exported |-> TRUE,
                declares |-> load_function(nm),
                url |-> wasm_url(nm),
                deps |-> [i \in 1..Len(taken) |-> load_function(taken[i])]]>>
             \o export_declarations(Tail(ids),
                    [k \in DOMAIN split_deps \ {nm} |-> split_deps[k]])

loader_script(output_modules) ==
    chunk_declarations(output_modules)
    \o export_declarations(
           Reverse([i \in 1..Len(output_modules) |-> output_modules[i].identifier]),
           split_deps_of(output_modules))

(***************************************************************************)
(* Inputs.  Three families of input modules:                                *)
(*  - discovery: any import and export lists of up to MaxItems items each   *)
(*    (orphans, repeated keys, non-function kinds), no relocations;         *)
(*  - partition: 0, 1 or 2 well-formed split points over six functions and  *)
(*    one data symbol, and any dep graph of up to MaxEdges edges;           *)
(*  - naming: one split point per module for any set of module names of     *)
(*    NamePool, and MaxHelpers helper functions, each used by the           *)
(*    export_funcs of no or of two or more of the modules.                  *)
(* Imported functions have no outgoing edges; the export of a split point   *)
(* is a defined function.                                                   *)
(***************************************************************************)
NameA == <<97>>
NameB == <<98>>
NameC == <<99>>
NameB_C == <<98, 95, 99>>
NameMain == <<109, 97, 105, 110>>

RECURSIVE SeqsUpTo(_, _)
SeqsUpTo(S, n) ==
    IF n = 0 THEN {<<>>}
    ELSE LET shorter == SeqsUpTo(S, n - 1)
         IN  shorter \cup {Append(q, x) : q \in shorter, x \in S}

RECURSIVE SubsetsUpTo(_, _)
SubsetsUpTo(S, n) ==
    IF n = 0 THEN {{}}
    ELSE LET smaller == SubsetsUpTo(S, n - 1)
         IN  smaller \cup {q \cup {x} : q \in smaller, x \in S}

GraphOf(edges) ==
    [n \in {e[1] : e \in edges} |-> {e[2] : e \in {d \in edges : d[1] = n}}]

DiscoveryKeys == {<<NameA, 1>>, <<NameA, 2>>, <<NameB, 1>>}

\* A plain function, a split item of each key, and one of the wrong kind.
DiscoveryItems ==
    {[split |-> FALSE, key |-> <<<<>>, 0>>, func |-> TRUE]}
    \cup {[split |-> TRUE, key |-> k, func |-> TRUE] : k \in DiscoveryKeys}
    \cup {[split |-> TRUE, key |-> <<NameA, 1>>, func |-> FALSE]}

DiscoveryInputs ==
    {[module |->
         [imports |-> [i \in 1..Len(im) |->
                          IF im[i].split
                          THEN SplitImport(im[i].key[1], im[i].key[2], im[i].func)
                          ELSE PlainImport(TRUE)],
          exports |-> [i \in 1..Len(ex) |->
                          IF ex[i].split
                          THEN SplitExport(ex[i].key[1], ex[i].key[2], ex[i].func,
                                           Len(im) + i - 1)
                          ELSE PlainExport(TRUE, Len(im) + i - 1)],
          start |-> {}],
      dep_graph |-> <<>>] :
        im \in SeqsUpTo(DiscoveryItems, MaxItems),
        ex \in SeqsUpTo(DiscoveryItems, MaxItems)}

PartitionConfigs ==
    {[mods |-> <<>>, start |-> {}], [mods |-> <<>>, start |-> {4}],
     [mods |-> <<NameA>>, start |-> {}], [mods |-> <<NameMain>>, start |-> {}],
     [mods |-> <<NameA, NameA>>, start |-> {}],
     [mods |-> <<NameA, NameB>>, start |-> {}]}

PartitionEdges ==
    ({Function(i) : i \in 2..5} \cup {DataSymbol(0)})
    \X ({Function(i) : i \in 0..5} \cup {DataSymbol(0)})

PartitionInputs ==
    {[module |->
         [imports |-> [k \in 1..2 |->
                          IF k <= Len(c.mods) THEN SplitImport(c.mods[k], k, TRUE)
                          ELSE PlainImport(TRUE)],
          exports |-> [k \in 1..Len(c.mods) |-> SplitExport(c.mods[k], k, TRUE, 1 + k)]
                      \o <<PlainExport(FALSE, 0)>>
                      \o (IF c.start = {} THEN <<PlainExport(TRUE, 4)>> ELSE <<>>),
          start |-> c.start],
      dep_graph |-> GraphOf(edges)] :
        c \in PartitionConfigs, edges \in SubsetsUpTo(PartitionEdges, MaxEdges)}

NamePool == {NameA, NameB, NameC, NameB_C}

NamingInputsOf(mods) ==
    {[module |->
         [imports |-> [k \in 1..Len(mods) |-> SplitImport(mods[k], k, TRUE)],
          exports |-> [k \in 1..Len(mods) |->
                          SplitExport(mods[k], k, TRUE, Len(mods) + k - 1)],
          start |-> {}],
      dep_graph |->
          GraphOf({<<Function(Len(mods) + e[1] - 1), Function(2 * Len(mods) + e[2] - 1)>> :
                      e \in {u \in (1..Len(mods)) \X (1..MaxHelpers) :
                                u[1] \in users[u[2]]}})] :
        users \in [1..MaxHelpers ->
                      {S \in SUBSET (1..Len(mods)) : Cardinality(S) # 1}]}

NamingInputs ==
    UNION {NamingInputsOf(SortStrs(S)) : S \in SUBSET NamePool \ {{}}}

NoProgramInfo ==
    [output_modules |-> <<>>, output_module_identifiers |-> <<>>,
     shared_funcs |-> {}, symbol_output_module |-> <<>>]

IsInput(input) == module = input.module /\ dep_graph = input.dep_graph

Init ==
    /\ \/ \E input \in DiscoveryInputs : IsInput(input)
       \/ \E input \in PartitionInputs : IsInput(input)
       \/ \E input \in NamingInputs : IsInput(input)
    /\ pc = "get_split_points"
    /\ found = NoError
    /\ split_points = <<>>
    /\ program_info = NoProgramInfo
    /\ alreadyLoaded = <<>>
    /\ calls = <<>>
    /\ instantiated = <<>>
    /\ javascript = <<>>

(***************************************************************************)
(* main(), one action per call.                                            *)
(***************************************************************************)
\* split_point::get_split_points(&module)?
GetSplitPoints ==
    /\ pc = "get_split_points"
    /\ LET import_keys == DOMAIN process_imports_or_exports(module.imports)
           export_keys == DOMAIN process_imports_or_exports(module.exports)
           left == export_keys \ import_keys
       IN  \E order \in Orders(import_keys) :
           \E first \in (IF left = {} THEN {<<>>} ELSE left) :
               LET r == get_split_points(module, order, first)
               IN  /\ found' = r.error
                   /\ split_points' = r.split_points
                   /\ pc' = IF r.error = NoError THEN "compute_split_modules"
                            ELSE "failed"
    /\ UNCHANGED <<module, dep_graph, program_info, javascript,
                   alreadyLoaded, calls, instantiated>>

\* split_point::compute_split_modules(&module, &dep_graph, &split_points)?
ComputeSplitModules ==
    /\ pc = "compute_split_modules"
    /\ \E h \in HashOrders :
           program_info' = compute_split_modules(module, dep_graph, split_points, h)
    /\ pc' = "loader"
    /\ UNCHANGED <<module, dep_graph, found, split_points, javascript,
                   alreadyLoaded, calls, instantiated>>

\* The loader script written to __wasm_split.js.
WriteLoader ==
    /\ pc = "loader"
    /\ javascript' = loader_script(program_info.output_modules)
    /\ pc' = "done"
    /\ UNCHANGED <<module, dep_graph, found, split_points, program_info,
                   alreadyLoaded, calls, instantiated>>

Next == GetSplitPoints \/ ComputeSplitModules \/ WriteLoader

Spec == Init /\ [][Next]_vars

(***************************************************************************)
(* Vocabulary of the properties.                                           *)
(***************************************************************************)
Computed == pc \in {"loader", "done"}

Outputs == program_info.output_modules

OutputIds == 1..Len(Outputs)

Included(i) == Outputs[i].info.included_symbols

SharedImports(i) == Outputs[i].info.shared_imports

ImportFuncs == {split_points[i].import_func : i \in 1..Len(split_points)}

ExportFuncs == {split_points[i].export_func : i \in 1..Len(split_points)}

SplitNames == {split_points[i].module_name : i \in 1..Len(split_points)}

Children(n) == IF n \in DOMAIN dep_graph THEN dep_graph[n] ELSE {}

\* The nodes reachable from `roots` along paths none of whose nodes is in
\* `avoid` (the roots included).
RECURSIVE Closure(_, _)
Closure(reached, avoid) ==
    LET more == (UNION {Children(n) : n \in reached}) \ (avoid \cup reached)
    IN  IF more = {} THEN reached ELSE Closure(reached \cup more, avoid)

ReachAvoiding(roots, avoid) == Closure(roots \ avoid, avoid)

MainRoots == get_main_module_roots(module, split_points)

MainSet == UNION {Included(i) : i \in {j \in OutputIds : Outputs[j].identifier = Main}}

RootsOf(split) ==
    {Function(split_points[i].export_func) :
        i \in {j \in 1..Len(split_points) : split_points[j].module_name = split}}

\* The split modules whose roots reach n without passing through Main's set.
SplitsReaching(n) == {s \in SplitNames : n \in ReachAvoiding(RootsOf(s), MainSet)}

Holders(n) == {i \in OutputIds : n \in Included(i)}

(***************************************************************************)
(* C1: Main's included_symbols is disjoint from the included_symbols of     *)
(* every Split and Chunk output.                                            *)
(* The code enqueues a split module's roots without looking at `exclude`,   *)
(* so an export_func that Main reaches is included by Main and by its Split.*)
(***************************************************************************)
C1_MainDisjoint ==
    Computed =>
        \A i, j \in OutputIds :
            (Outputs[i].identifier = Main /\ Outputs[j].identifier # Main)
                => Included(i) \cap Included(j) = {}

(***************************************************************************)
(* C2: every DepNode reachable in the dep graph from the main roots is in   *)
(* included_symbols of exactly one output module.                           *)
(* Read with the trampolines set aside: a split point's import_func is      *)
(* deleted from every set by design, so "every DepNode" is taken over the   *)
(* nodes that are not an import_func.  What then fails is the export_func   *)
(* of C1, held by Main and by its Split.                                    *)
(***************************************************************************)
C2_PartitionCoverage ==
    Computed =>
        \A n \in ReachAvoiding(MainRoots, {}) \ {Function(f) : f \in ImportFuncs} :
            Cardinality(Holders(n)) = 1

AllNodes ==
    DOMAIN dep_graph \cup UNION {dep_graph[n] : n \in DOMAIN dep_graph}
    \cup MainRoots \cup {Function(f) : f \in ExportFuncs \cup ImportFuncs}

Trampolines == {Function(f) : f \in ImportFuncs}

\* n is in exactly one output, the Chunk of exactly the splits reaching n.
InItsChunkOnly(n) ==
    /\ Cardinality(Holders(n)) = 1
    /\ \A i \in Holders(n) : Outputs[i].identifier = Chunk(SortStrs(SplitsReaching(n)))

(***************************************************************************)
(* C3 as stated: every node reachable from the roots of two or more split   *)
(* modules along paths that avoid Main's set is in exactly one output,      *)
(* Chunk(S) with S the sorted list of all split modules reaching it.        *)
(* Fails for a split point's import_func called by two split modules: it    *)
(* is stripped from every candidate set and so is in no output.             *)
(***************************************************************************)
C3_Original ==
    Computed =>
        \A n \in AllNodes : Cardinality(SplitsReaching(n)) >= 2 => InItsChunkOnly(n)

(***************************************************************************)
(* C3 (amended): every node other than a split point's import_func that is  *)
(* reachable from the roots of two or more split modules along paths that   *)
(* avoid Main's set is in exactly one output, Chunk(S) with S the sorted    *)
(* list of exactly the split modules reaching it, and in no Split output.   *)
(***************************************************************************)
C3_ChunkCorrectness ==
    Computed =>
        \A n \in AllNodes \ Trampolines :
            Cardinality(SplitsReaching(n)) >= 2 => InItsChunkOnly(n)

\* A node shared by three split modules while another is shared by two of them.
C3_Witness ==
    /\ Computed
    /\ \E n, k \in AllNodes \ Trampolines :
           /\ Cardinality(SplitsReaching(n)) = 3
           /\ Cardinality(SplitsReaching(k)) = 2
           /\ InItsChunkOnly(n) /\ InItsChunkOnly(k)

\* The function a call of f resolves to: the paired export_func of an import_func.
Resolved(f) ==
    IF f \in ImportFuncs
    THEN (CHOOSE sp \in Range(split_points) : sp.import_func = f).export_func
    ELSE f

\* The functions called from the symbols `from` of output i and not included in it.
CalledOutside(i, from) ==
    {g \in {Resolved(c.index) :
               c \in {d \in UNION {Children(s) : s \in from} : d.tag = "Function"}} :
        Function(g) \notin Included(i)}

(***************************************************************************)
(* C4 as stated: shared_imports of an output is exactly the set of          *)
(* functions called (trampolines resolved) by some FUNCTION it includes and *)
(* not included in it.                                                      *)
(* Fails for an included data symbol that refers to a function of another   *)
(* output: the loop runs over every included symbol.                        *)
(***************************************************************************)
C4_Original ==
    Computed =>
        \A i \in OutputIds :
            SharedImports(i) =
                CalledOutside(i, {s \in Included(i) : s.tag = "Function"})

(***************************************************************************)
(* C4 (amended): shared_imports of an output is exactly the set of          *)
(* functions g such that some SYMBOL included in it (function or data       *)
(* symbol) has a dep-graph edge to Function(f), g is f with an import_func  *)
(* replaced by its paired export_func, and Function(g) is not included.     *)
(***************************************************************************)
C4_SharedImportsExact ==
    Computed => \A i \in OutputIds : SharedImports(i) = CalledOutside(i, Included(i))

\* An output imports a function that only one of its data symbols refers to,
\* and another through a trampoline.
C4_Witness ==
    /\ Computed
    /\ \E i \in OutputIds :
           /\ CalledOutside(i, {s \in Included(i) : s.tag = "DataSymbol"})
                  \ CalledOutside(i, {s \in Included(i) : s.tag = "Function"}) # {}
           /\ SharedImports(i) \cap ExportFuncs # {}

(***************************************************************************)
(* C5: the import_func of every split point is in no output's               *)
(* included_symbols, in no output's shared_imports and not in shared_funcs; *)
(* every dep-graph edge from an included symbol to an import_func is        *)
(* accounted for by the paired export_func: the output includes it or has   *)
(* it in shared_imports, and shared_funcs has it.                           *)
(***************************************************************************)
C5_TrampolineRewriting ==
    Computed =>
        /\ \A f \in ImportFuncs :
               /\ f \notin program_info.shared_funcs
               /\ \A i \in OutputIds :
                      Function(f) \notin Included(i) /\ f \notin SharedImports(i)
        /\ \A i \in OutputIds : \A s \in Included(i) :
               \A c \in Children(s) \cap Trampolines :
                   /\ \/ Function(Resolved(c.index)) \in Included(i)
                      \/ Resolved(c.index) \in SharedImports(i)
                   /\ Resolved(c.index) \in program_info.shared_funcs

\* Main and a split module both call a trampoline whose export_func is in
\* another output.
C5_Witness ==
    /\ Computed
    /\ \E i, j \in OutputIds : \E f \in ImportFuncs :
           /\ Outputs[i].identifier = Main /\ Outputs[j].identifier.tag = "Split"
           /\ \E s \in Included(i) : Function(f) \in Children(s)
           /\ \E s \in Included(j) : Function(f) \in Children(s)
           /\ Resolved(f) \in SharedImports(i) \cap SharedImports(j)

(***************************************************************************)
(* C6: program_info.shared_funcs equals the union over all outputs of       *)
(* their shared_imports together with the export_func of every split point; *)
(* so every function a non-Main output imports is in shared_funcs.          *)
(***************************************************************************)
C6_SharedFuncs ==
    Computed =>
        /\ program_info.shared_funcs =
               UNION {SharedImports(i) : i \in OutputIds} \cup ExportFuncs
        /\ \A i \in OutputIds :
               Outputs[i].identifier # Main =>
                   SharedImports(i) \subseteq program_info.shared_funcs

\* A split module imports a function that is no export_func, and some
\* export_func is imported by no output.
C6_Witness ==
    /\ Computed
    /\ \E i \in OutputIds :
           /\ Outputs[i].identifier.tag = "Split"
           /\ SharedImports(i) \ ExportFuncs # {}
    /\ ExportFuncs \ UNION {SharedImports(i) : i \in OutputIds} # {}

\* Outputs i < j of one class are in strictly ascending order of their names.
AscendingWithinClass ==
    \A i, j \in OutputIds :
        (i < j /\ Outputs[i].identifier.tag = Outputs[j].identifier.tag) =>
            IF Outputs[i].identifier.tag = "Split"
            THEN StrLess(Outputs[i].identifier.names[1], Outputs[j].identifier.names[1])
            ELSE VecLess(Outputs[i].identifier.names, Outputs[j].identifier.names)

\* The classes of the outputs come in the order first, second, third.
ClassOrder(first, second, third) ==
    LET class(i) == IF Outputs[i].identifier.tag = first THEN 0
                    ELSE IF Outputs[i].identifier.tag = second THEN 1 ELSE 2
    IN  /\ \A i \in OutputIds : Outputs[i].identifier.tag \in {first, second, third}
        /\ \A i, j \in OutputIds : i < j => class(i) <= class(j)

\* output_module_identifiers and symbol_output_module hold the 0-based
\* position of the output in output_modules.
DenseIndexFollowsOrder ==
    /\ DOMAIN program_info.output_module_identifiers =
           {Outputs[i].identifier : i \in OutputIds}
    /\ \A i \in OutputIds :
           program_info.output_module_identifiers[Outputs[i].identifier] = i - 1
    /\ DOMAIN program_info.symbol_output_module = UNION {Included(i) : i \in OutputIds}
    /\ \A n \in DOMAIN program_info.symbol_output_module :
           /\ program_info.symbol_output_module[n] + 1 \in OutputIds
           /\ n \in Included(program_info.symbol_output_module[n] + 1)

(***************************************************************************)
(* C7 as stated: output_modules is sorted Main first, then every Chunk,     *)
(* then every Split, each class in ascending order, and the dense output    *)
(* index follows that order.                                                *)
(* Fails whenever there is a Chunk: the derived Ord follows the order of    *)
(* the variants in the enum, Main, Split, Chunk.                            *)
(***************************************************************************)
C7_Original ==
    Computed =>
        /\ ClassOrder("Main", "Chunk", "Split")
        /\ AscendingWithinClass
        /\ DenseIndexFollowsOrder

(***************************************************************************)
(* C7 (amended): output_modules is sorted so that Main comes first, then    *)
(* every Split output, then every Chunk output (splits and chunks each in   *)
(* ascending lexicographic order among themselves), and the dense output    *)
(* index of output_module_identifiers and symbol_output_module follows      *)
(* that order.                                                              *)
(***************************************************************************)
C7_OutputOrder ==
    Computed =>
        /\ Len(Outputs) >= 1 /\ Outputs[1].identifier = Main
        /\ ClassOrder("Main", "Split", "Chunk")
        /\ AscendingWithinClass
        /\ DenseIndexFollowsOrder

\* Three splits and two chunks, with symbols in each class.
C7_Witness ==
    /\ Computed
    /\ Cardinality({i \in OutputIds : Outputs[i].identifier.tag = "Split"}) >= 3
    /\ Cardinality({i \in OutputIds : Outputs[i].identifier.tag = "Chunk"}) >= 2
    /\ \E i, j \in OutputIds :
           /\ Outputs[i].identifier.tag = "Split" /\ Included(i) # {}
           /\ Outputs[j].identifier.tag = "Chunk" /\ Included(j) # {}

(***************************************************************************)
(* The loader script.                                                      *)
(***************************************************************************)
Declarations == 1..Len(javascript)

SplitOutputs == {i \in OutputIds : Outputs[i].identifier.tag = "Split"}

ChunkOutputs == {i \in OutputIds : Outputs[i].identifier.tag = "Chunk"}

NoDuplicates(q) == \A i, j \in 1..Len(q) : q[i] = q[j] => i = j

\* The declarations of the load function of the output named nm.
DeclarationsOf(nm) == {d \in Declarations : javascript[d].declares = load_function(nm)}

(***************************************************************************)
(* C8: in the loader script every chunk's declaration precedes every        *)
(* split's declaration, and the deps list of each split's declaration is    *)
(* exactly the set of load functions of the Chunk outputs whose name list   *)
(* contains that split's name: no more, no fewer, no duplicates.            *)
(* Two chunks that list the same split and whose names join to the same     *)
(* string (["a","b","c"] and ["a","b_c"]) put the same load function twice  *)
(* in that split's deps.                                                    *)
(***************************************************************************)
C8_LoaderTopology ==
    pc = "done" =>
        /\ \A c \in ChunkOutputs, s \in SplitOutputs :
               \A dc \in {d \in DeclarationsOf(name(Outputs[c].identifier)) :
                             ~javascript[d].exported} :
               \A ds \in {d \in DeclarationsOf(name(Outputs[s].identifier)) :
                             javascript[d].exported} :
                   dc < ds
        /\ \A s \in SplitOutputs :
               \E ds \in DeclarationsOf(name(Outputs[s].identifier)) :
                   /\ javascript[ds].exported
                   /\ NoDuplicates(javascript[ds].deps)
                   /\ Range(javascript[ds].deps) =
                          {load_function(name(Outputs[c].identifier)) :
                              c \in {k \in ChunkOutputs :
                                        Outputs[s].identifier.names[1]
                                            \in Range(Outputs[k].identifier.names)}}

(***************************************************************************)
(* C9: the loader script declares exactly one non-exported load function    *)
(* per Chunk output, with empty deps, exactly one exported load function    *)
(* per Split output, and no load function for any other output; with no     *)
(* split points it declares no exported load function.                      *)
(* The second loop skips only the chunks, so Main gets an exported          *)
(* __wasm_split_load_main too.                                              *)
(***************************************************************************)
C9_LoaderDeclarations ==
    pc = "done" =>
        /\ Cardinality({d \in Declarations : ~javascript[d].exported})
               = Cardinality(ChunkOutputs)
        /\ Cardinality({d \in Declarations : javascript[d].exported})
               = Cardinality(SplitOutputs)
        /\ \A d \in Declarations :
               IF javascript[d].exported
               THEN \E s \in SplitOutputs :
                        javascript[d].declares = load_function(name(Outputs[s].identifier))
               ELSE /\ javascript[d].deps = <<>>
                    /\ \E c \in ChunkOutputs :
                           javascript[d].declares =
                               load_function(name(Outputs[c].identifier))
        /\ \A i \in SplitOutputs \cup ChunkOutputs :
               DeclarationsOf(name(Outputs[i].identifier)) # {}
        /\ split_points = <<>> => \A d \in Declarations : ~javascript[d].exported

(***************************************************************************)
(* Split-point discovery.                                                  *)
(***************************************************************************)
Discovered == pc # "get_split_points"

Succeeded == Discovered /\ found = NoError

ImportKeys == {KeyOf(module.imports[i]) :
                  i \in {j \in 1..Len(module.imports) : module.imports[j].split}}

ExportKeys == {KeyOf(module.exports[i]) :
                  i \in {j \in 1..Len(module.exports) : module.exports[j].split}}

\* The item a key stands for: the last one of that name.
LastWithKey(items, key) ==
    CHOOSE i \in 1..Len(items) :
        /\ items[i].split /\ KeyOf(items[i]) = key
        /\ \A j \in (i + 1)..Len(items) : ~(items[j].split /\ KeyOf(items[j]) = key)

\* Each paired export is a function and each paired import an imported function.
PairedKindsRight ==
    \A key \in ImportKeys \cap ExportKeys :
        /\ module.exports[LastWithKey(module.exports, key)].func
        /\ module.imports[LastWithKey(module.imports, key)].func

Unpaired == (ImportKeys \ ExportKeys) \cup (ExportKeys \ ImportKeys)

\* The error names the key as an orphan of its side.
NamesOrphan(key) ==
    /\ found.key = key
    /\ found.kind = IF key \in ImportKeys THEN "no_export_for_import"
                    ELSE "no_import_for_export"

\* On success: exactly one SplitPoint per key, pairing the import and the
\* export of that key.
OneSplitPointPerKey ==
    /\ Len(split_points) = Cardinality(ImportKeys)
    /\ \A key \in ImportKeys :
           \E i \in 1..Len(split_points) :
               LET sp == split_points[i]
                   im == LastWithKey(module.imports, key)
                   ex == LastWithKey(module.exports, key)
               IN  /\ sp.module_name = key[1]
                   /\ sp.import = im - 1 /\ sp.export = ex - 1
                   /\ sp.import_func =
                          Cardinality({j \in 1..(im - 1) : module.imports[j].func})
                   /\ sp.export_func = module.exports[ex].index

SucceedsIffPaired ==
    Discovered =>
        /\ found = NoError <=> (ImportKeys = ExportKeys /\ PairedKindsRight)
        /\ found = NoError => OneSplitPointPerKey

(***************************************************************************)
(* C10 as stated: get_split_points succeeds iff the import keys and the     *)
(* export keys are the same and the paired items have the right kinds; ANY  *)
(* unpaired key makes it return an error naming THAT key; on success there  *)
(* is exactly one SplitPoint per key.                                       *)
(* Fails with two orphans (one error, one key named) and with an orphan     *)
(* beside a pair of the wrong kind (the kind error may come first).         *)
(***************************************************************************)
C10_Original ==
    /\ SucceedsIffPaired
    /\ Discovered => \A key \in Unpaired : NamesOrphan(key)

(***************************************************************************)
(* C10 (amended): get_split_points succeeds iff every key among the split   *)
(* imports also occurs among the split exports and vice versa, each paired  *)
(* export is a function and each paired import an imported function; any    *)
(* unpaired key makes it return an error, which names ONE unpaired key      *)
(* whenever all paired items have the right kinds (it is the first error    *)
(* met, otherwise possibly the kind error of a pair); on success it returns *)
(* exactly one SplitPoint per key, pairing one import with one export.      *)
(***************************************************************************)
C10_SplitPointPairing ==
    /\ SucceedsIffPaired
    /\ (Discovered /\ Unpaired # {}) =>
           /\ found # NoError /\ pc = "failed"
           /\ found.kind \in {"no_export_for_import", "no_import_for_export"}
                  => \E key \in Unpaired : NamesOrphan(key)
           /\ PairedKindsRight => \E key \in Unpaired : NamesOrphan(key)

\* S5: a paired split point and an orphan export, named by the error.
C10_Witness ==
    /\ pc = "failed"
    /\ ImportKeys # {} /\ ImportKeys \subseteq ExportKeys /\ PairedKindsRight
    /\ \E key \in ExportKeys \ ImportKeys : NamesOrphan(key)

(***************************************************************************)
(* C13: the mapping from output identifier to file name                     *)
(* (SplitModuleIdentifier::name) is invertible within one run: two distinct *)
(* output identifiers never yield the same name, so no two outputs are      *)
(* written to the same .wasm file or declared under the same                *)
(* __wasm_split_load_ name.                                                 *)
(* A split module named "main" has the name of Main; a split module named   *)
(* "b_c" has the name of Chunk(["b", "c"]); Chunk(["a", "b", "c"]) and      *)
(* Chunk(["a", "b_c"]) have the same name.                                  *)
(***************************************************************************)
C13_NamesDistinct ==
    Computed =>
        \A i, j \in OutputIds :
            name(Outputs[i].identifier) = name(Outputs[j].identifier) => i = j

(***************************************************************************)
(* C14: find_reachable_deps visits each node once: whatever the dep graph   *)
(* (cycles and self-edges included), the root set and the exclude set, no   *)
(* node is dequeued and expanded more than one time before the traversal    *)
(* ends.  Stated of the traversals compute_split_modules makes: the one     *)
(* from the main roots with nothing excluded, and the one from each split   *)
(* module's entry points with Main's set excluded.                          *)
(* A child is tested against `seen` when it is pushed, and enters `seen`    *)
(* only when it is popped: a node two queued nodes both point to is pushed  *)
(* by each of them, and popped and expanded as many times.                  *)
(***************************************************************************)
C14_VisitsOnce ==
    Computed =>
        \A h \in HashOrders :
            /\ NoDuplicates(find_reachable_deps(dep_graph, MainRoots, {}, h).dequeued)
            /\ \A s \in SplitNames :
                   NoDuplicates(
                       find_reachable_deps(dep_graph, RootsOf(s), MainSet, h).dequeued)

(***************************************************************************)
(* C12: partitioning and loader generation are deterministic.  For a fixed  *)
(* input (dep graph, imports and exports, hence split points) the ordered   *)
(* list of output identifiers, each output's included_symbols and           *)
(* shared_imports, shared_funcs, symbol_output_module and the loader script *)
(* are the same whatever order the hash sets and hash maps are iterated in  *)
(* and whatever the parents maps come out as.                               *)
(* The run at hand has taken some drain order in get_split_points and      *)
(* some iteration orders in compute_split_modules; it is compared with the  *)
(* run of the same input under one reference choice of both.  All runs of   *)
(* an input agreeing with the reference run, they agree with each other.    *)
(***************************************************************************)
ReferenceOrder == [nodes |-> "ascending", names |-> "ascending"]

\* The keys of import_map in the order of their imports.
RECURSIVE InImportOrder(_, _)
InImportOrder(import_map, keys) ==
    IF keys = {} THEN <<>>
    ELSE LET first == CHOOSE k \in keys : \A l \in keys : import_map[k] <= import_map[l]
         IN  <<first>> \o InImportOrder(import_map, keys \ {first})

ReferenceSplitPoints ==
    LET import_map == process_imports_or_exports(module.imports)
    IN  get_split_points(module, InImportOrder(import_map, DOMAIN import_map),
                         <<>>).split_points

ReferenceInfo ==
    compute_split_modules(module, dep_graph, ReferenceSplitPoints, ReferenceOrder)

\* What the claim lists of a SplitProgramInfo.
Observable(info) ==
    [identifiers |-> [i \in 1..Len(info.output_modules) |->
                         info.output_modules[i].identifier],
     included_symbols |-> [i \in 1..Len(info.output_modules) |->
                              info.output_modules[i].info.included_symbols],
     shared_imports |-> [i \in 1..Len(info.output_modules) |->
                            info.output_modules[i].info.shared_imports],
     shared_funcs |-> info.shared_funcs,
     symbol_output_module |-> info.symbol_output_module]

C12_Deterministic ==
    Computed =>
        LET reference == ReferenceInfo
        IN  /\ Observable(program_info) = Observable(reference)
            /\ pc = "done" => javascript = loader_script(reference.output_modules)

\* A finished run whose drain order and whose parents maps both differ from
\* the reference run's: the iteration orders did matter to what the claim
\* sets aside.
C12_Witness ==
    /\ pc = "done"
    /\ split_points # ReferenceSplitPoints
    /\ \E i \in OutputIds :
           Outputs[i].info.parents # ReferenceInfo.output_modules[i].info.parents

(***************************************************************************)
(* The loader at run time: the script's load functions, as makeLoad builds  *)
(* them, called by the program.  A load function is named by the index of   *)
(* its declaration in the script.  alreadyLoaded is the flag of each        *)
(* closure; calls lists the invocations of the async function made so far,  *)
(* each at the await it is suspended on or settled; instantiated counts,    *)
(* per load function, the instantiateStreaming calls of its url that have   *)
(* resolved.  JavaScript runs an async function without interleaving from   *)
(* one await to the next: each such stretch is one step.                    *)
(***************************************************************************)
undefined == <<>>

\* The const a name in a `deps` list refers to.
Declared(nm) == CHOOSE d \in 1..Len(javascript) : javascript[d].declares = nm

\* The call `await dep()` of invocation id is suspended on: the last one it made.
Awaited(id) ==
    CHOOSE c \in DOMAIN calls :
        /\ calls[c].caller = id
        /\ \A e \in DOMAIN calls : calls[e].caller = id => e <= c

\* The entry of the async function makeLoad returned, called with these
\* arguments by `caller` (0: the program): `if (alreadyLoaded) return;`.
enter(cs, d, callbackIndex, callbackData, caller) ==
    Append(cs, [load |-> d,
                callbackIndex |-> callbackIndex,
                callbackData |-> callbackData,
                caller |-> caller,
                at |-> IF alreadyLoaded[d] THEN "fulfilled" ELSE "entered",
                dep |-> 0,
                mainExports |-> "undefined",
                invoked |-> <<>>])

\* `for (let dep of deps) { await dep(); }` of invocation id from the i-th
\* dep on, followed by `fetch(url)`, up to the next await.  A dep is called
\* with no arguments and runs, within the same step, up to its own first
\* await or its return.
RECURSIVE for_deps(_, _, _)
for_deps(cs, id, i) ==
    LET deps == javascript[cs[id].load].deps
    IN  IF i <= Len(deps)
        THEN LET called == enter([cs EXCEPT ![id].at = "await_dep", ![id].dep = i],
                                 Declared(deps[i]), undefined, undefined, id)
             IN  IF called[Len(called)].at = "fulfilled" THEN called
                 ELSE for_deps(called, Len(called), 1)
        ELSE [cs EXCEPT ![id].at = "await_fetch"]

\* A call of the async function, up to its first await or its return.
load_call(cs, d, callbackIndex, callbackData, caller) ==
    LET called == enter(cs, d, callbackIndex, callbackData, caller)
    IN  IF called[Len(called)].at = "fulfilled" THEN called
        ELSE for_deps(called, Len(called), 1)

\* `mainExports.__indirect_function_table.get(callbackIndex)(callbackData, ok)`
callback(cs, id, ok) ==
    [cs EXCEPT ![id].invoked = Append(@, [callbackIndex |-> cs[id].callbackIndex,
                                          callbackData |-> cs[id].callbackData,
                                          ok |-> ok]),
               ![id].at = "fulfilled"]

\* The catch block.
catch(cs, id) ==
    IF cs[id].callbackIndex = undefined
    THEN [cs EXCEPT ![id].at = "rejected"]
    ELSE callback([cs EXCEPT ![id].mainExports = "initSync"], id, FALSE)

\* The program calls an exported load function.
Call ==
    /\ pc = "done"
    /\ Cardinality({id \in DOMAIN calls : calls[id].caller = 0}) < MaxCalls
    /\ \E d \in {e \in 1..Len(javascript) : javascript[e].exported} :
       \E callbackIndex \in 0..MaxCallbackIndex :
       \E callbackData \in 0..MaxCallbackData :
           calls' = load_call(calls, d, <<callbackIndex>>, <<callbackData>>, 0)
    /\ UNCHANGED <<module, dep_graph, pc, found, split_points, program_info,
                   javascript, alreadyLoaded, instantiated>>

\* `await dep()` returns or throws; the loop is outside the try block.
DepSettled ==
    /\ \E id \in DOMAIN calls :
           /\ calls[id].at = "await_dep"
           /\ \/ /\ calls[Awaited(id)].at = "fulfilled"
                 /\ calls' = for_deps(calls, id, calls[id].dep + 1)
              \/ /\ calls[Awaited(id)].at = "rejected"
                 /\ calls' = [calls EXCEPT ![id].at = "rejected"]
    /\ UNCHANGED <<module, dep_graph, pc, found, split_points, program_info,
                   javascript, alreadyLoaded, instantiated>>

\* `await fetch(url)` returns the response or throws; on a response initSync
\* and instantiateStreaming are called.
FetchSettled ==
    /\ \E id \in DOMAIN calls :
           /\ calls[id].at = "await_fetch"
           /\ \E ok \in BOOLEAN :
                  calls' = IF ok
                           THEN [calls EXCEPT ![id].mainExports = "initSync",
                                              ![id].at = "await_instantiate"]
                           ELSE catch(calls, id)
    /\ UNCHANGED <<module, dep_graph, pc, found, split_points, program_info,
                   javascript, alreadyLoaded, instantiated>>

\* `await WebAssembly.instantiateStreaming(response, imports)` returns the
\* instance or throws.
InstantiateStreamingSettled ==
    /\ \E id \in DOMAIN calls :
           /\ calls[id].at = "await_instantiate"
           /\ \E ok \in BOOLEAN :
                  IF ok
                  THEN /\ alreadyLoaded' = [alreadyLoaded EXCEPT ![calls[id].load] = TRUE]
                       /\ instantiated' = [instantiated EXCEPT ![calls[id].load] = @ + 1]
                       /\ calls' = IF calls[id].callbackIndex = undefined
                                   THEN [calls EXCEPT ![id].at = "fulfilled"]
                                   ELSE callback(calls, id, TRUE)
                  ELSE /\ calls' = catch(calls, id)
                       /\ UNCHANGED <<alreadyLoaded, instantiated>>
    /\ UNCHANGED <<module, dep_graph, pc, found, split_points, program_info,
                   javascript>>

\* The scripts the load functions are taken from: those written for split
\* modules "a" and "b", with and without a chunk the two share.
LoadScenarios == NamingInputsOf(<<NameA, NameB>>)

InitLoad ==
    /\ \E input \in LoadScenarios : IsInput(input)
    /\ pc = "done"
    /\ found = NoError
    /\ LET import_keys == DOMAIN process_imports_or_exports(module.imports)
       IN  \E order \in Orders(import_keys) :
               split_points = get_split_points(module, order, <<>>).split_points
    /\ \E h \in HashOrders :
           program_info = compute_split_modules(module, dep_graph, split_points, h)
    /\ javascript = loader_script(program_info.output_modules)
    /\ alreadyLoaded = [d \in 1..Len(javascript) |-> FALSE]
    /\ calls = <<>>
    /\ instantiated = [d \in 1..Len(javascript) |-> 0]

NextLoad == Call \/ DepSettled \/ FetchSettled \/ InstantiateStreamingSettled

\* The event loop resumes an async function whose awaited promise has
\* settled, and a fetch or an instantiation the browser has started settles.
SpecLoad ==
    /\ InitLoad
    /\ [][NextLoad]_vars
    /\ WF_vars(DepSettled)
    /\ WF_vars(FetchSettled)
    /\ WF_vars(InstantiateStreamingSettled)

Settled(id) == calls[id].at \in {"fulfilled", "rejected"}

(***************************************************************************)
(* C11: every call of a load function with a defined callbackIndex          *)
(* eventually invokes the indirect-function-table callback at callbackIndex *)
(* with callbackData, passing true when the module (after all its deps) was *)
(* loaded and false when loading failed, also when the module was already   *)
(* loaded by an earlier call and when one of the deps fails to load.        *)
(* A call that has settled makes no further step: if it is to invoke the    *)
(* callback at all, it has done so by the time it settles.  So: a settled   *)
(* call with a defined callbackIndex has invoked that callback with its     *)
(* callbackData, once, and with true only if the module and its deps are    *)
(* loaded.                                                                  *)
(***************************************************************************)
C11_CallbackInvoked ==
    \A id \in DOMAIN calls :
        (calls[id].callbackIndex # undefined /\ Settled(id)) =>
            /\ Len(calls[id].invoked) = 1
            /\ calls[id].invoked[1].callbackIndex = calls[id].callbackIndex
            /\ calls[id].invoked[1].callbackData = calls[id].callbackData
            /\ calls[id].invoked[1].ok =>
                   /\ alreadyLoaded[calls[id].load]
                   /\ \A i \in 1..Len(javascript[calls[id].load].deps) :
                          alreadyLoaded[Declared(javascript[calls[id].load].deps[i])]

(***************************************************************************)
(* C15: the module at the url of a load function is fetched and             *)
(* instantiated at most once, over any sequence or interleaving of calls,   *)
(* a second call that starts while an earlier one is still awaiting deps,   *)
(* fetch or instantiation included.                                         *)
(***************************************************************************)
C15_InstantiatedOnce ==
    \A d \in DOMAIN instantiated : instantiated[d] <= 1

====
